---- MODULE Spec2Model ----
(***************************************************************************)
(* Model of src/src/kernel/threads.cpp: the cooperative per-CPU thread     *)
(* managers of IncludeOS (thread ids, thread tree, registries, suspension  *)
(* queues, resume/yield/exit and migration).                               *)
(*                                                                         *)
(* A thread object is named by a reference: the heap objects 1..MaxThreads *)
(* (addresses returned by `new Thread`, never handed out twice) and one    *)
(* main thread per CPU, Main(c).  NULL is the null pointer.  An assert     *)
(* that fails halts the machine (halted), after the effects that precede   *)
(* it in the handler.                                                      *)
(***************************************************************************)
EXTENDS Integers, Sequences, FiniteSets, TLC

\* ---------------------------------------------------------------- bounds
MaxThreads == 2
MaxCounter == 2
MaxQueue == 2

CPUs == {0, 1}
NULL == 0
Objs == 1..MaxThreads
Main(c) == 0 - (c + 1)
Mains == {Main(c) : c \in CPUs}
Refs == Objs \cup Mains

\* values a caller can pass as a return point (ret_instr, ret_stack)
Addrs == {1}
\* the one userspace cell a ctid argument can point to, and its first value
CtidAddr == 1
CtidInit == 42
SETTID == "CLONE_CHILD_SETTID"
CLEARTID == "CLONE_CHILD_CLEARTID"
FlagSets == SUBSET {SETTID, CLEARTID}

VARIABLES
  thread_counter,   \* static long thread_counter
  thr,              \* the Thread objects: fields of every reference
  alloc,            \* heap state of each object
  threads,          \* ThreadManager::threads, per CPU: tid -> Thread*
  suspended,        \* ThreadManager::suspended, per CPU: deque of Thread*
  cur,              \* the thread executing on each CPU (get_thread())
  mem,              \* the userspace cell ctid points to
  pc,               \* where each CPU is inside thread_create / migrate
  loc,              \* the locals a CPU holds across the steps of a handler
  halted,           \* an assert failed
  issued,           \* history: the ids generate_new_thread_id returned
  last              \* history: the operation that completed last

vars == <<thread_counter, thr, alloc, threads, suspended, cur, mem, pc, loc,
          halted, issued, last>>

\* ---------------------------------------------------------------- helpers
Range(s) == {s[i] : i \in 1..Len(s)}

RECURSIVE RemoveAll(_, _)
RemoveAll(s, x) ==
  IF s = <<>> THEN <<>>
  ELSE IF Head(s) = x THEN RemoveAll(Tail(s), x)
       ELSE <<Head(s)>> \o RemoveAll(Tail(s), x)

RECURSIVE RemoveFirst(_, _)
RemoveFirst(s, x) ==
  IF s = <<>> THEN <<>>
  ELSE IF Head(s) = x THEN Tail(s)
       ELSE <<Head(s)>> \o RemoveFirst(Tail(s), x)

NoLocals == [tid |-> 0, thread |-> NULL, cpu |-> 0]

\* history record of a completed handler.  op: the handler; cpu: the CPU that
\* ran it; thr: the thread it was about; next: the thread it transferred
\* control to (NULL if none); via: how
Op(o, c, t, n, v) == [op |-> o, cpu |-> c, thr |-> t, next |-> n, via |-> v]

NoOp == Op("init", 0, NULL, NULL, "none")

Tids == 0..MaxCounter

\* a Thread as `new struct Thread` followed by init(tid) leaves it
NewThread(tid) ==
  [tid |-> tid, parent |-> NULL, children |-> <<>>,
   stored_nexti |-> 0, stored_stack |-> 0, yielded |-> FALSE,
   clear_tid |-> NULL]

\* ---------------------------------------------------------------- Init
\* the state after setup_main_thread() ran on every CPU
Init ==
  /\ thread_counter = 1
  /\ thr = [r \in Refs |-> NewThread(0)]
  /\ alloc = [o \in Objs |-> "free"]
  /\ threads = [c \in CPUs |-> [i \in Tids |-> NULL]]
  /\ suspended = [c \in CPUs |-> <<>>]
  /\ cur = [c \in CPUs |-> Main(c)]
  /\ mem = CtidInit
  /\ pc = [c \in CPUs |-> "run"]
  /\ loc = [c \in CPUs |-> NoLocals]
  /\ halted = FALSE
  /\ issued = <<>>
  /\ last = NoOp

\* ---------------------------------------------------------------- functions
\* mutant: the increment is lost (a plain read instead of the fetch-and-add)
generate_new_thread_id_lost(counter) == [ret |-> counter, counter |-> counter]

\* __sync_fetch_and_add(&thread_counter, 1): the value returned and stored
generate_new_thread_id(counter) == [ret |-> counter, counter |-> counter + 1]

get_last_thread_id == thread_counter - 1

\* Thread::store_return
store_return(T, t, ret_instr, ret_stack) ==
  [T EXCEPT ![t].stored_nexti = ret_instr, ![t].stored_stack = ret_stack]

\* ThreadManager::suspend(Thread*): enqueue at the back of the deque
manager_suspend(q, t) == Append(q, t)

\* get_thread(long tid): nullptr when the id is not in the registry
get_thread(reg, tid) == reg[tid]

\* mutant: the registry is not written
insert_thread_dropped(reg, T, t) == reg

\* ThreadManager::insert_thread: map::emplace leaves an existing key alone
insert_thread(reg, T, t) ==
  IF reg[T[t].tid] # NULL THEN reg ELSE [reg EXCEPT ![T[t].tid] = t]

\* the three asserts of ThreadManager::erase_thread_safely
erase_thread_asserts(reg, T, t) ==
  /\ t # NULL
  /\ reg[T[t].tid] # NULL
  /\ reg[T[t].tid] = t

\* mutant: the entry is left in the registry
erase_thread_kept(reg, T, t) == reg

\* ThreadManager::erase_thread_safely once its asserts passed
erase_thread_safely(reg, T, t) == [reg EXCEPT ![T[t].tid] = NULL]

\* the assert of ThreadManager::wakeup_next
wakeup_next_assert(q) == q # <<>>

\* mutant: the back of the deque is taken instead of the front
wakeup_next_back(q) == [next |-> q[Len(q)], rest |-> SubSeq(q, 1, Len(q) - 1)]

\* ThreadManager::wakeup_next: the thread returned and the queue left
wakeup_next(q) == [next |-> Head(q), rest |-> Tail(q)]

\* mutant: only the first occurrence of t leaves the queue
erase_suspension_first(q, t) == RemoveFirst(q, t)

\* ThreadManager::erase_suspension: every occurrence of t leaves the queue
erase_suspension(q, t) == RemoveAll(q, t)

\* mutant: the early return is never taken
alone_never(q) == FALSE

\* __thread_suspend_and_yield, line 243: nobody else is waiting
alone(q) == q = <<>>

\* Thread::resume: the continuation contract it jumps through
resume_via(T, t) ==
  IF T[t].yielded = FALSE THEN "clone_return" ELSE "thread_restore"

\* mutant: the yielded flag is not reset
resume_fields_kept(T, t) == T

\* Thread::resume: the fields it writes before the jump
resume_fields(T, t) ==
  IF T[t].yielded = FALSE THEN T ELSE [T EXCEPT ![t].yielded = FALSE]

\* mutant: the children keep the exiting thread as their parent
detach_children_skipped(T, t, c) == T

\* Thread::exit, lines 86-88: the children are handed to the calling CPU's main
detach_children(T, t, c) ==
  [r \in Refs |->
     IF r \in Range(T[t].children) THEN [T[r] EXCEPT !.parent = Main(c)]
     ELSE T[r]]

\* Thread::exit, lines 90-95: the first occurrence of t leaves parent.children
remove_from_parent(T, t) ==
  [T EXCEPT ![T[t].parent].children = RemoveFirst(@, t)]

\* mutant: the word at the child-tid address is left as it is
clear_child_tid_skipped(T, t, m) == m

\* Thread::exit, lines 99-102: the word at the child-tid address after the
\* CLONE_CHILD_CLEARTID write, m being the word before
clear_child_tid(T, t, m) == IF T[t].clear_tid # NULL THEN 0 ELSE m

\* mutant: the test is dropped and every exit resumes the parent
exiting_myself_always(running, t) == TRUE

\* Thread::exit, line 83: is the exiting thread the one running on this CPU
exiting_myself(running, t) == running = t

\* the references a caller can hold: main threads and threads thread_create
\* returned that were not deleted since
Live == Mains \cup {o \in Objs : alloc[o] = "live"}

Running(c) == ~halted /\ pc[c] = "run"

\* mutant: a failed assert is ignored and the handler returns
PanicIgnored(c, t, handler) ==
  /\ halted' = halted
  /\ last' = Op("panic", c, t, NULL, handler)

\* assert(...) failed: the machine stops
Panic(c, t, handler) ==
  /\ halted' = TRUE
  /\ last' = Op("panic", c, t, NULL, handler)

\* ---------------------------------------------------------------- thread_create
\* line 135: the id is drawn before anything else, in one atomic step
CreateBegin(c) ==
  /\ Running(c)
  /\ thread_counter <= MaxCounter
  /\ LET g == generate_new_thread_id(thread_counter) IN
       /\ thread_counter' = g.counter
       /\ loc' = [loc EXCEPT ![c].tid = g.ret]
       /\ issued' = Append(issued, g.ret)
  /\ pc' = [pc EXCEPT ![c] = "create"]
  /\ last' = Op("fetch_id", c, NULL, NULL, "none")
  /\ UNCHANGED <<thr, alloc, threads, suspended, cur, mem, halted>>

CreateFails == {"none", "new", "push_back", "emplace"}

\* lines 136-156.  fail names the allocation that throws, if any; what was
\* done before the throw stays done, and the caller gets nullptr.
CreateEnd(c, parent, flags, fail) ==
  /\ ~halted
  /\ pc[c] = "create"
  /\ parent \in Live
  /\ LET tid == loc[c].tid
           free == {o \in Objs : alloc[o] = "free"}
       IN
       /\ (free = {}) => (fail = "new")
       /\ IF fail = "new"
          THEN /\ last' = Op("create", c, NULL, NULL, fail)
               /\ UNCHANGED <<thr, alloc, threads, mem>>
          ELSE
            LET o == CHOOSE x \in free : \A y \in free : x <= y
                T1 == [thr EXCEPT ![o] = [NewThread(tid) EXCEPT !.parent = parent]]
                T2 == [T1 EXCEPT ![parent].children = Append(@, o)]
                T3 == IF CLEARTID \in flags
                      THEN [T2 EXCEPT ![o].clear_tid = CtidAddr] ELSE T2
                m3 == IF SETTID \in flags THEN tid ELSE mem
            IN
            IF fail = "push_back"
            THEN /\ thr' = T1
                 /\ alloc' = [alloc EXCEPT ![o] = "lost"]
                 /\ last' = Op("create", c, NULL, NULL, fail)
                 /\ UNCHANGED <<threads, mem>>
            ELSE IF fail = "emplace"
            THEN /\ thr' = T3
                 /\ mem' = m3
                 /\ alloc' = [alloc EXCEPT ![o] = "lost"]
                 /\ last' = Op("create", c, NULL, NULL, fail)
                 /\ UNCHANGED threads
            ELSE /\ thr' = T3
                 /\ mem' = m3
                 /\ alloc' = [alloc EXCEPT ![o] = "live"]
                 /\ threads' = [threads EXCEPT ![c] = insert_thread(@, T3, o)]
                 /\ last' = Op("create", c, o, NULL, "none")
  /\ pc' = [pc EXCEPT ![c] = "run"]
  /\ loc' = [loc EXCEPT ![c] = NoLocals]
  /\ UNCHANGED <<thread_counter, suspended, cur, halted, issued>>

\* ---------------------------------------------------------------- resume
\* Thread::resume on CPU c, entered from handler o that was about thread t:
\* control moves into next.  T is the thread table the handler built so far.
ResumeInto(c, T, t, next, o) ==
  /\ thr' = resume_fields(T, next)
  /\ cur' = [cur EXCEPT ![c] = next]
  /\ last' = Op(o, c, t, next, resume_via(T, next))

\* resume(long tid), lines 189-194
Resume(c, tid) ==
  /\ Running(c)
  /\ LET t == get_thread(threads[c], tid) IN
       IF t = NULL
       THEN /\ Panic(c, NULL, "resume")
            /\ UNCHANGED <<thr, cur>>
       ELSE /\ ResumeInto(c, thr, t, t, "resume")
            /\ UNCHANGED halted
  /\ UNCHANGED <<thread_counter, alloc, threads, suspended, mem, pc, loc, issued>>

\* ---------------------------------------------------------------- suspend / yield
\* Thread::suspend called by the thread running on c; throws when the
\* push_back cannot allocate, after store_return ran
Suspend(c, ret_instr, ret_stack, throws) ==
  /\ Running(c)
  /\ LET t == cur[c]
         T1 == store_return(thr, t, ret_instr, ret_stack)
     IN
     /\ thr' = T1
     /\ IF throws
        THEN /\ last' = Op("suspend", c, t, NULL, "throw")
             /\ UNCHANGED suspended
        ELSE /\ Len(suspended[c]) < MaxQueue
             /\ suspended' = [suspended EXCEPT ![c] = manager_suspend(@, t)]
             /\ last' = Op("suspend", c, t, NULL, "none")
  /\ UNCHANGED <<thread_counter, alloc, threads, cur, mem, pc, loc, halted, issued>>

\* Thread::yield called by the thread running on c
Yield(c) ==
  /\ Running(c)
  /\ LET t == cur[c] IN
       IF ~wakeup_next_assert(suspended[c])
       THEN /\ Panic(c, t, "yield")
            /\ UNCHANGED <<thr, cur, suspended>>
       ELSE LET w == wakeup_next(suspended[c])
                T1 == [thr EXCEPT ![t].yielded = TRUE]
            IN /\ suspended' = [suspended EXCEPT ![c] = w.rest]
               /\ ResumeInto(c, T1, t, w.next, "yield")
               /\ UNCHANGED halted
  /\ UNCHANGED <<thread_counter, alloc, threads, mem, pc, loc, issued>>

\* __thread_suspend_and_yield, lines 239-249
SuspendAndYield(c, next_instr, stack, throws) ==
  /\ Running(c)
  /\ LET t == cur[c] IN
       IF alone(suspended[c])
       THEN /\ last' = Op("suspend_and_yield", c, t, NULL, "noop")
            /\ UNCHANGED <<thr, cur, suspended>>
       ELSE
         LET T1 == store_return(thr, t, next_instr, stack) IN
         IF throws
         THEN /\ thr' = T1
              /\ last' = Op("suspend_and_yield", c, t, NULL, "throw")
              /\ UNCHANGED <<cur, suspended>>
         ELSE
           LET q1 == manager_suspend(suspended[c], t)
               w == wakeup_next(q1)
               T2 == [T1 EXCEPT ![t].yielded = TRUE]
           IN /\ suspended' = [suspended EXCEPT ![c] = w.rest]
              /\ ResumeInto(c, T2, t, w.next, "suspend_and_yield")
  /\ UNCHANGED <<thread_counter, alloc, threads, mem, pc, loc, halted, issued>>

\* ---------------------------------------------------------------- exit
\* Thread::exit called on thread t by code running on CPU c
Exit(c, t) ==
  /\ Running(c)
  /\ t \in Live
  /\ LET myself == exiting_myself(cur[c], t) IN
     IF thr[t].parent = NULL
     THEN /\ Panic(c, t, "exit")
          /\ UNCHANGED <<thr, alloc, threads, suspended, cur, mem>>
     ELSE
       LET T1 == detach_children(thr, t, c)
           T2 == remove_from_parent(T1, t)
           next == thr[t].parent
           m2 == clear_child_tid(thr, t, mem)
       IN
       /\ mem' = m2
       /\ IF ~erase_thread_asserts(threads[c], T2, t)
          THEN /\ Panic(c, t, "exit")
               /\ thr' = T2
               /\ UNCHANGED <<alloc, threads, suspended, cur>>
          ELSE
            /\ threads' = [threads EXCEPT ![c] = erase_thread_safely(@, T2, t)]
            /\ alloc' = [alloc EXCEPT ![t] = "deleted"]
            /\ UNCHANGED halted
            /\ IF myself
               THEN /\ suspended' = [suspended EXCEPT ![c] = erase_suspension(@, next)]
                    /\ ResumeInto(c, T2, t, next, "exit")
               ELSE /\ thr' = T2
                    /\ last' = Op("exit", c, t, NULL, "none")
                    /\ UNCHANGED <<suspended, cur>>
  /\ UNCHANGED <<thread_counter, pc, loc, issued>>

\* ---------------------------------------------------------------- migrate
\* ThreadManager::migrate, lines 198-200, called on its own manager by code
\* running on CPU c: the lookup and the erase
MigrateBegin(c, tid, cpu) ==
  /\ Running(c)
  /\ LET t == get_thread(threads[c], tid) IN
       IF t = NULL \/ ~erase_thread_asserts(threads[c], thr, t)
       THEN /\ Panic(c, t, "migrate")
            /\ UNCHANGED <<threads, pc, loc>>
       ELSE /\ threads' = [threads EXCEPT ![c] = erase_thread_safely(@, thr, t)]
            /\ pc' = [pc EXCEPT ![c] = "migrate"]
            /\ loc' = [loc EXCEPT ![c].thread = t, ![c].cpu = cpu]
            /\ last' = Op("migrate_erase", c, t, NULL, "none")
            /\ UNCHANGED halted
  /\ UNCHANGED <<thread_counter, thr, alloc, suspended, cur, mem, issued>>

\* ThreadManager::migrate, line 201: the insert into the target's registry
MigrateEnd(c) ==
  /\ ~halted
  /\ pc[c] = "migrate"
  /\ threads' = [threads EXCEPT
                   ![loc[c].cpu] = insert_thread(@, thr, loc[c].thread)]
  /\ last' = Op("migrate", c, loc[c].thread, NULL, "none")
  /\ pc' = [pc EXCEPT ![c] = "run"]
  /\ loc' = [loc EXCEPT ![c] = NoLocals]
  /\ UNCHANGED <<thread_counter, thr, alloc, suspended, cur, mem, halted, issued>>

\* ---------------------------------------------------------------- insert_thread
\* ThreadManager::get(cpu).insert_thread(thread) called by code running on
\* CPU c with a thread it holds; the call returns whether or not the id was
\* already in the registry
InsertThread(c, cpu, t) ==
  /\ Running(c)
  /\ t \in Live
  /\ threads' = [threads EXCEPT ![cpu] = insert_thread(@, thr, t)]
  /\ last' = Op("insert_thread", c, t, NULL, "none")
  /\ loc' = [loc EXCEPT ![c].cpu = cpu]
  /\ UNCHANGED <<thread_counter, thr, alloc, suspended, cur, mem, pc, halted,
                 issued>>

\* ---------------------------------------------------------------- use after free
\* The thread running on c was deleted (by an exit on its behalf, or it was
\* woken from a queue entry left behind): its code runs on freed memory, and
\* besides going on with the stale object the machine may stop at any point.
Fault(c) ==
  /\ Running(c)
  /\ cur[c] \in Objs
  /\ alloc[cur[c]] = "deleted"
  /\ Panic(c, cur[c], "fault")
  /\ UNCHANGED <<thread_counter, thr, alloc, threads, suspended, cur, mem, pc,
                 loc, issued>>

\* ---------------------------------------------------------------- Next
\* CPU 0 runs every handler; CPU 1 is up (its main thread and manager exist)
\* and receives migrated threads
Next ==
  \/ CreateBegin(0)
  \/ \E parent \in Refs, fail \in CreateFails : CreateEnd(0, parent, {}, fail)
  \/ \E tid \in Tids : Resume(0, tid)
  \/ \E a \in Addrs, f \in BOOLEAN : Suspend(0, a, a, f)
  \/ Yield(0)
  \/ \E a \in Addrs, f \in BOOLEAN : SuspendAndYield(0, a, a, f)
  \/ \E t \in Refs : Exit(0, t)
  \/ \E tid \in Tids, cpu \in CPUs : MigrateBegin(0, tid, cpu)
  \/ MigrateEnd(0)
  \/ Fault(0)

Spec == Init /\ [][Next]_vars

\* the ids a caller on CPU c can name: those in c's registry
Registered(c) == {i \in Tids : threads[c][i] # NULL}

\* Both CPUs create, resume, exit and migrate threads concurrently; callers
\* resume and migrate ids of their own registry and exit created threads
NextSmp ==
  \/ \E c \in CPUs : CreateBegin(c)
  \/ \E c \in CPUs, parent \in Refs, fail \in CreateFails :
       CreateEnd(c, parent, {}, fail)
  \/ \E c \in CPUs : \E tid \in Registered(c) : Resume(c, tid)
  \/ \E c \in CPUs, t \in Objs : Exit(c, t)
  \/ \E c \in CPUs, cpu \in CPUs : \E tid \in Registered(c) :
       MigrateBegin(c, tid, cpu)
  \/ \E c \in CPUs : MigrateEnd(c)
  \/ \E c \in CPUs : Fault(c)

SpecSmp == Init /\ [][NextSmp]_vars

\* CPU 0 creates, exits and migrates threads and also calls insert_thread
\* itself, on either manager, with any thread it holds (main threads have id 0)
NextInsert ==
  \/ CreateBegin(0)
  \/ \E parent \in Refs, fail \in CreateFails : CreateEnd(0, parent, {}, fail)
  \/ \E cpu \in CPUs, t \in Refs : InsertThread(0, cpu, t)
  \/ \E t \in Objs : Exit(0, t)
  \/ \E cpu \in CPUs : \E tid \in Registered(0) : MigrateBegin(0, tid, cpu)
  \/ MigrateEnd(0)

SpecInsert == Init /\ [][NextInsert]_vars

\* the running thread calls __thread_suspend_and_yield and the enqueue, if
\* one is needed, succeeds
Cooperate(c) == \E a \in Addrs : SuspendAndYield(c, a, a, FALSE)

\* a thread_create that drew its id runs to its return
CreateReturns(c) ==
  \E parent \in Refs, fail \in CreateFails : CreateEnd(c, parent, {}, fail)

\* The threads of CPU 0 as a cooperating ring: they create threads, start
\* them with resume(id), suspend, yield through __thread_suspend_and_yield
\* and exit themselves; nobody exits or migrates another thread, and no
\* caller breaks a precondition.  A thread that runs after its deletion may
\* stop the machine.
NextLive ==
  \/ CreateBegin(0)
  \/ CreateReturns(0)
  \/ \E tid \in Registered(0) : Resume(0, tid)
  \/ \E a \in Addrs, f \in BOOLEAN : Suspend(0, a, a, f)
  \/ \E a \in Addrs : SuspendAndYield(0, a, a, TRUE)
  \/ Cooperate(0)
  \/ cur[0] \in Objs /\ Exit(0, cur[0])
  \/ Fault(0)

\* cooperative scheduling: a handler that was entered returns, and the
\* running thread keeps the CPU until it yields or exits itself; threads exit
\* only finitely often, so whoever is running eventually calls
\* __thread_suspend_and_yield
SpecLive ==
  Init /\ [][NextLive]_vars /\ WF_vars(Cooperate(0)) /\ WF_vars(CreateReturns(0))

\* CPU 0 creates threads with every combination of the SETTID and CLEARTID
\* flags, all on the same child-tid address, and resumes, exits and migrates them
NextCtid ==
  \/ CreateBegin(0)
  \/ \E parent \in Refs, flags \in FlagSets, fail \in CreateFails :
       CreateEnd(0, parent, flags, fail)
  \/ \E tid \in Tids : Resume(0, tid)
  \/ \E t \in Refs : Exit(0, t)
  \/ \E tid \in Tids, cpu \in CPUs : MigrateBegin(0, tid, cpu)
  \/ MigrateEnd(0)

SpecCtid == Init /\ [][NextCtid]_vars

\* ================================================================ properties
\* the step just taken was handler o on CPU c (every action sets last)
Did(o, c) == last'.op = o /\ last'.cpu = c

RECURSIVE IsSubseq(_, _)
IsSubseq(a, b) ==
  IF a = <<>> THEN TRUE
  ELSE IF b = <<>> THEN FALSE
  ELSE IF Head(a) = Head(b) THEN IsSubseq(Tail(a), Tail(b))
  ELSE IsSubseq(a, Tail(b))

\* C1: every id generate_new_thread_id ever returned is distinct from all the
\* others, and so are the ids of all thread objects ever allocated (running,
\* leaked by a failed creation, or deleted), on whichever CPU they were made.
IdsUnique ==
  /\ \A i, j \in 1..Len(issued) : i # j => issued[i] # issued[j]
  /\ \A a, b \in Objs :
       (a # b /\ alloc[a] # "free" /\ alloc[b] # "free") => thr[a].tid # thr[b].tid

\* both CPUs are inside thread_create at once, each holding the id it drew
IdsUniqueWitness ==
  /\ pc[0] = "create" /\ pc[1] = "create"
  /\ Len(issued) = 2

\* C2: when thread_create(parent, ...) returns a thread, that thread's id maps
\* to it in the calling CPU's registry and in no other registry, the thread is
\* in parent.children, and its parent field is parent.
CreateRegisters ==
  [][(last'.op = "create" /\ last'.thr # NULL) =>
       \A p \in Refs, fl \in FlagSets :
         CreateEnd(last'.cpu, p, fl, "none") =>
           LET o == last'.thr
               c == last'.cpu
           IN
           /\ threads'[c][thr'[o].tid] = o
           /\ \A d \in CPUs \ {c} : \A i \in Tids : threads'[d][i] # o
           /\ \A d \in CPUs \ {c} : threads'[d][thr'[o].tid] = NULL
           /\ o \in Range(thr'[p].children)
           /\ thr'[o].parent = p]_vars

\* CPU 1 created a thread whose parent is another created thread
CreateRegistersWitness ==
  /\ last.op = "create" /\ last.cpu = 1 /\ last.thr # NULL
  /\ thr[last.thr].parent \in Objs
  /\ threads[1][thr[last.thr].tid] = last.thr

\* C3: every live non-main thread has a parent, and is a member of that
\* parent's children.
ParentHasChild ==
  \A o \in Objs :
    alloc[o] = "live" =>
      /\ thr[o].parent # NULL
      /\ o \in Range(thr[thr[o].parent].children)

\* C4: when exit() of a non-main thread T completes, every child T had has the
\* main thread of the manager that held T as its parent, T is not among its
\* former parent's children, and T's id is in no registry.
ExitDetaches ==
  [][\A t \in Objs :
       (alloc[t] = "live" /\ alloc'[t] = "deleted") =>
         /\ \E c \in CPUs :
              /\ threads[c][thr[t].tid] = t
              /\ \A ch \in Range(thr[t].children) : thr'[ch].parent = Main(c)
         /\ t \notin Range(thr'[thr[t].parent].children)
         /\ \A c \in CPUs : threads'[c][thr[t].tid] = NULL]_vars

\* a thread that had migrated to CPU 1 exited there and left a child behind
ExitDetachesWitness ==
  /\ last.op = "exit" /\ last.cpu = 1
  /\ alloc[last.thr] = "deleted"
  /\ \E ch \in Objs : alloc[ch] = "live" /\ thr[ch].parent = Main(1)
                      /\ ch \in Range(thr[last.thr].children)

\* C5: the suspension queue is first in, first out: a suspend puts the thread
\* at the back, a wakeup (yield) returns the front and removes exactly it, and
\* no other handler reorders the threads that stay queued.
QueueFifo ==
  [][\A c \in CPUs :
       /\ (Did("suspend", c) /\ last'.via = "none") =>
            suspended'[c] = Append(suspended[c], cur[c])
       /\ (Did("yield", c)) =>
            /\ last'.next = Head(suspended[c])
            /\ cur'[c] = Head(suspended[c])
            /\ suspended'[c] = Tail(suspended[c])
       /\ (Did("suspend_and_yield", c) /\ last'.via \notin {"noop", "throw"}) =>
            /\ cur'[c] = Head(Append(suspended[c], cur[c]))
            /\ suspended'[c] = Tail(Append(suspended[c], cur[c]))
       /\ IsSubseq(suspended'[c], Append(suspended[c], cur[c]))]_vars

\* T1 was woken while T2, suspended after it, is still queued
QueueFifoWitness ==
  /\ last.op = "yield"
  /\ suspended[0] # <<>>
  /\ Head(suspended[0]) # last.next
  /\ cur[0] = last.next

\* C6: migrate(id, cpuB) on cpuA takes the id out of cpuA's registry and puts
\* it into cpuB's, and changes nothing else: no thread field (continuation,
\* resume mode, parent, children), no suspended queue, no other registry entry.
MigrateFrame ==
  [][\A c \in CPUs :
       /\ Did("migrate_erase", c) =>
            LET t == last'.thr IN
            /\ threads[c][thr[t].tid] = t
            /\ threads' = [threads EXCEPT ![c][thr[t].tid] = NULL]
            /\ thr' = thr /\ suspended' = suspended /\ cur' = cur /\ mem' = mem
       /\ Did("migrate", c) =>
            LET t == last'.thr
                b == loc[c].cpu
            IN
            /\ threads' = [threads EXCEPT ![b][thr[t].tid] = t]
            /\ b # c => threads'[c][thr[t].tid] = NULL
            /\ thr' = thr /\ suspended' = suspended /\ cur' = cur /\ mem' = mem]_vars

\* a thread that has a saved continuation and is neither running nor queued
\* was moved to CPU 1 while another thread is queued on CPU 0
MigrateFrameWitness ==
  /\ last.op = "migrate"
  /\ threads[1][thr[last.thr].tid] = last.thr
  /\ threads[0][thr[last.thr].tid] = NULL
  /\ thr[last.thr].stored_nexti # 0
  /\ cur[0] # last.thr
  /\ last.thr \notin Range(suspended[0])
  /\ suspended[0] # <<>>

\* C7: in every state, the id of each live non-main thread is in exactly one
\* manager's registry.
ExactlyOneRegistry ==
  \A o \in Objs :
    alloc[o] = "live" =>
      Cardinality({c \in CPUs : threads[c][thr[o].tid] # NULL}) = 1

\* C8: the thread running on a CPU is never in that CPU's suspended queue.
CurrentNotQueued ==
  \A c \in CPUs : cur[c] \notin Range(suspended[c])

\* C9: yield with an empty suspended queue stops the machine in wakeup_next:
\* no thread is returned, the caller is not marked yielded, control goes to
\* no thread, and nothing runs afterwards.
WakeupEmptyFatal ==
  [][/\ ~halted
     /\ \A c \in CPUs :
          (/\ last'.cpu = c
           /\ \/ last'.op = "yield"
              \/ last'.op = "panic" /\ last'.via = "yield"
           /\ suspended[c] = <<>>) =>
            /\ halted'
            /\ last'.next = NULL
            /\ thr' = thr
            /\ cur' = cur
            /\ suspended' = suspended]_vars

\* a created thread called yield while nobody was queued
WakeupEmptyFatalWitness ==
  /\ halted
  /\ last.op = "panic" /\ last.via = "yield"
  /\ last.thr \in Objs
  /\ suspended[last.cpu] = <<>>
  /\ ~thr[last.thr].yielded

\* C10: __thread_suspend_and_yield with an empty suspended queue changes
\* nothing: the same thread stays current, and no thread field, queue or
\* registry is written.
AloneNoop ==
  [][\A c \in CPUs :
       (Did("suspend_and_yield", c) /\ suspended[c] = <<>>) =>
         /\ cur' = cur
         /\ thr' = thr
         /\ suspended' = suspended
         /\ threads' = threads
         /\ ~halted']_vars

\* a created thread that never saved a continuation made the call alone
AloneNoopWitness ==
  /\ last.op = "suspend_and_yield" /\ last.via = "noop"
  /\ cur[last.cpu] = last.thr
  /\ last.thr \in Objs
  /\ thr[last.thr].stored_nexti = 0
  /\ suspended[last.cpu] = <<>>

\* C11: when the enqueue inside Thread::suspend fails, the caller sees the
\* failure and the thread is as it was before the call: the same saved
\* continuation (resume address and stack pointer), the same resume mode, the
\* same registry entry and the same suspended queue.
SuspendThrowKeeps ==
  [][\A c \in CPUs :
       (/\ last'.op \in {"suspend", "suspend_and_yield"}
        /\ last'.cpu = c
        /\ last'.via = "throw") =>
         LET t == last'.thr IN
         /\ thr'[t].stored_nexti = thr[t].stored_nexti
         /\ thr'[t].stored_stack = thr[t].stored_stack
         /\ thr'[t].yielded = thr[t].yielded
         /\ threads' = threads
         /\ suspended' = suspended
         /\ cur' = cur]_vars

\* C12: a thread created with CLONE_CHILD_CLEARTID and child-tid address X
\* keeps X as its clear-on-exit address for as long as it lives, and X holds 0
\* when its exit completes, whatever X held at creation or in between; a thread
\* created without the flag has no clear-on-exit address and its exit leaves X
\* as it was.
ClearTidOnExit ==
  [][/\ (last'.op = "create" /\ last'.thr # NULL) =>
          \A p \in Refs, fl \in FlagSets :
            CreateEnd(last'.cpu, p, fl, "none") =>
              (thr'[last'.thr].clear_tid =
                 IF CLEARTID \in fl THEN CtidAddr ELSE NULL)
     /\ \A t \in Objs :
          (alloc[t] = "live" /\ alloc'[t] = "live") =>
            thr'[t].clear_tid = thr[t].clear_tid
     /\ \A t \in Objs :
          (alloc[t] = "live" /\ alloc'[t] = "deleted") =>
            IF thr[t].clear_tid = CtidAddr THEN mem' = 0 ELSE mem' = mem]_vars

\* the second thread created was given a clear-on-exit address, has exited,
\* and X holds 0
ClearTidOnExitWitness ==
  /\ last.op = "exit"
  /\ alloc[last.thr] = "deleted"
  /\ thr[last.thr].clear_tid = CtidAddr
  /\ thr[last.thr].tid = 2
  /\ mem = 0

\* C13: insert_thread on a manager whose registry already holds the thread's
\* id traps: the machine stops instead of the call returning, and the entry
\* the registry had for the id is still there.
InsertDuplicateTraps ==
  [][\A c \in CPUs :
       (/\ last'.cpu = c
        /\ \/ last'.op = "insert_thread"
           \/ last'.op = "panic" /\ last'.via = "insert_thread"
        /\ threads[loc'[c].cpu][thr[last'.thr].tid] # NULL) =>
         /\ halted'
         /\ threads' = threads]_vars

\* C14: when the thread that calls exit is the one running on the CPU, the
\* parent it had at that moment becomes the current thread of that CPU; when
\* exit is called on any other thread, no thread is resumed and the current
\* thread of every CPU stays what it was.
ExitResumesParent ==
  [][\A c \in CPUs :
       Did("exit", c) =>
         LET t == last'.thr IN
         IF cur[c] = t
         THEN /\ cur'[c] = thr[t].parent
              /\ last'.next = thr[t].parent
              /\ \A d \in CPUs \ {c} : cur'[d] = cur[d]
         ELSE /\ cur' = cur
              /\ last'.next = NULL]_vars

\* a running thread whose parent is another created thread exited, and that
\* parent is now current
ExitResumesParentWitness ==
  /\ last.op = "exit"
  /\ last.next \in Objs
  /\ alloc[last.thr] = "deleted"
  /\ alloc[last.next] = "live"
  /\ cur[last.cpu] = last.next

\* C15: when the thread running on a CPU exits, the exit takes the thread out
\* of that CPU's suspended queue: after it, the exited thread occurs nowhere
\* in the queue.
ExitLeavesQueue ==
  [][\A c \in CPUs :
       (Did("exit", c) /\ cur[c] = last'.thr) =>
         last'.thr \notin Range(suspended'[c])]_vars

\* C16 as claimed: the resume mode becomes yielded when the thread suspends:
\* once Thread::suspend has queued a thread its mode is yielded (so that it is
\* resumed through the yield-restore continuation), and right after any
\* resume the resumed thread's mode is not-yielded.
ModeFlipsOnSuspend ==
  [][/\ (last'.op = "suspend" /\ last'.via = "none") =>
          thr'[last'.thr].yielded
     /\ last'.next # NULL => ~thr'[last'.next].yielded]_vars

\* the handlers that go through Thread::yield
YieldOps == {"yield", "suspend_and_yield"}

\* C16 amended: the resume mode of a thread becomes yielded when the thread
\* yields, not when it suspends, and not-yielded at each resume: a thread that
\* has yielded since its creation or its last resume is resumed through the
\* yield-restore continuation, any other thread (one that only suspended
\* included) through the fresh-return continuation; right after any resume
\* the resumed thread's mode is not-yielded; no other handler changes the
\* mode of a thread.  (Of threads that exist: a deleted Thread has no mode.)
ModeFlipsOnYield ==
  [][LET n == last'.next
         t == last'.thr
         yields == last'.op \in YieldOps /\ n # NULL
     IN
     /\ n \in Live' =>
          /\ last'.via = IF thr[n].yielded \/ (yields /\ n = t)
                          THEN "thread_restore" ELSE "clone_return"
          /\ ~thr'[n].yielded
     /\ (yields /\ t # n /\ t \in Live') => thr'[t].yielded
     /\ \A r \in Live' :
          (r # n /\ ~(yields /\ r = t)) => thr'[r].yielded = thr[r].yielded]_vars

\* a thread that suspended without yielding was woken by another thread's
\* yield and resumed through the fresh-return continuation
ModeFlipsOnYieldWitness ==
  /\ last.op = "yield"
  /\ last.via = "clone_return"
  /\ last.next # last.thr
  /\ thr[last.next].stored_nexti # 0
  /\ thr[last.thr].yielded
  /\ cur[last.cpu] = last.next
  /\ last.next \in Live /\ last.thr \in Live

\* the queue a control transfer chose from: __thread_suspend_and_yield puts
\* the caller at the back before it wakes the next thread
QueueBefore(c) ==
  IF last'.op = "suspend_and_yield"
  THEN Append(suspended[c], cur[c]) ELSE suspended[c]

\* C17 as claimed: the queue order is the only scheduling policy: whichever
\* handler (yield, exit or resume) makes a thread T2 current that was queued
\* and not running, no thread T1 that is queued and not running was queued
\* ahead of T2.
QueueSolePolicy ==
  [][\A c \in CPUs :
       (last'.cpu = c /\ last'.next # NULL /\ last'.next # cur[c]
        /\ last'.next \in Range(suspended[c])) =>
         \A i \in 1..Len(suspended[c]) :
           (suspended[c][i] # last'.next /\ suspended[c][i] # cur[c]) =>
             \E j \in 1..(i - 1) : suspended[c][j] = last'.next]_vars

\* C17 amended: the queue order is the scheduling policy of yield only: a
\* yield makes the thread at the front of the queue current and takes exactly
\* it out; exit makes the exiting thread's parent current, wherever it is
\* queued, and takes its occurrences out of the queue in place; resume(id)
\* makes the named thread current and leaves the queue alone.  (Of transfers
\* to a thread that exists; what a jump through a deleted Thread does is not
\* defined.)
QueuePolicyOfYield ==
  [][\A c \in CPUs :
       (last'.cpu = c /\ last'.next \in Live') =>
         /\ cur'[c] = last'.next
         /\ last'.op \in YieldOps =>
              /\ last'.next = Head(QueueBefore(c))
              /\ suspended'[c] = Tail(QueueBefore(c))
         /\ last'.op = "exit" =>
              /\ last'.next = thr[last'.thr].parent
              /\ last'.next \notin Range(suspended'[c])
              /\ suspended'[c] = RemoveAll(suspended[c], last'.next)
         /\ last'.op = "resume" =>
              /\ last'.next = threads[c][thr[last'.next].tid]
              /\ suspended' = suspended]_vars

\* an exit made the exiting thread's parent current while another thread is
\* still queued
QueuePolicyOfYieldWitness ==
  /\ last.op = "exit"
  /\ last.next \in Objs
  /\ cur[last.cpu] = last.next
  /\ thr[last.next].stored_nexti # 0
  /\ suspended[last.cpu] # <<>>
  /\ Head(suspended[last.cpu]) \in Live

\* C19: every entry of a manager's suspended queue is that manager's main
\* thread or a live thread registered in that manager's registry: the queue
\* never holds a thread that has exited or was migrated away.
QueueEntriesOwned ==
  \A c \in CPUs : \A i \in 1..Len(suspended[c]) :
    LET t == suspended[c][i] IN
    \/ t = Main(c)
    \/ /\ t \in Objs
       /\ alloc[t] = "live"
       /\ threads[c][thr[t].tid] = t

\* C20: the thread running on a CPU is that CPU's main thread or a thread
\* registered in that CPU's registry: no thread is current on a CPU other
\* than the one whose manager owns it.
CurrentOwned ==
  \A c \in CPUs :
    \/ cur[c] = Main(c)
    \/ /\ cur[c] \in Objs
       /\ alloc[cur[c]] = "live"
       /\ threads[c][thr[cur[c]].tid] = cur[c]

\* C18: a thread that suspended and yielded through
\* __thread_suspend_and_yield becomes the current thread again, given that
\* every running thread eventually yields that way or exits itself and that
\* nobody else exits or migrates the suspended thread.
YieldedRegainsControl ==
  \A t \in Refs :
    (/\ last.op = "suspend_and_yield" /\ last.thr = t
     /\ last.next # NULL /\ last.next # t
     /\ t \in Live
     /\ t \in Range(suspended[0])) ~> (cur[0] = t)

====
